---- MODULE Spec2Model ----
(***************************************************************************)
(* git-msg-unfck: one run of the `unfck` command line tool over a git      *)
(* repository.                                                             *)
(*                                                                         *)
(* The repository has one checked-out branch and possibly other local      *)
(* branches (a trunk named main or master). A commit object is a record of *)
(* its message, author, diff, committer date and whether it is a merge; a  *)
(* commit's identity (its hash) is the chain of commit objects             *)
(* from the root up to and including itself, so that identities are        *)
(* content-addressed: two commits are the same commit exactly when they    *)
(* and all their ancestors have the same content.                          *)
(*                                                                         *)
(* The git commands the tool runs are modelled by what git does with the   *)
(* arguments the source passes: `git rev-list --max-count`, `git commit    *)
(* --amend -F`, `git filter-branch --force --msg-filter`, `git rev-parse`, *)
(* `git update-ref -d`, `git gc --prune=now`.                              *)
(***************************************************************************)
EXTENDS Integers, Sequences, FiniteSets, TLC

\* ------------------------------------------------------------------ bounds
MaxLen == 3             \* longest initial history
MaxCount == 3           \* largest count given on the command line
CfgCount == 2           \* a default_commit_count set in the config file
MaxSets == 2            \* most `config set` invocations in a row

\* -------------------------------------------------------- program constants
DefaultCommitCount == 5 \* config["defaults"]["default_commit_count"]

\* ------------------------------------------------------------ input alphabets
None == "<None>"                     \* Python's None
PoorText == "wip"                    \* a message typed by a developer
GoodText == "Add X"                  \* a message the service returns
QuotedText == "\"Fix Y\""            \* a message wrapped in double quotes
FixText == "Fix Y"                   \* the same message without the quotes
EmptyText == ""                      \* the empty string
StagedChange == <<"index">>           \* the change sitting in the index
Author == "dev <dev@example.com>"
BranchNames == {"main", "feature"}
Commands == {"last", "first", ".", "config"}
MergeText == "Merge branch 'topic'"  \* the message `git merge` writes
Because == "because"                 \* a reason given with --why
TypedReason == "typed"               \* a reason the operator types at a prompt

\* Raw commit messages a history can start with: one made by `git commit -m`
\* (git appends a newline) and one written earlier by this tool's
\* filter-branch path (the file's bytes, no trailing newline).
InitMsgs == { [text |-> PoorText, nl |-> TRUE], [text |-> GoodText, nl |-> FALSE] }

VARIABLES
    head,        \* the branch pointer: the identity of the tip commit
    objects,     \* identities of the commit objects in the object store
    backups,     \* branch names b with a ref refs/original/refs/heads/b
    index,       \* "clean" or "staged": whether the index holds a change
    msgFile,     \* whether .git/COMMIT_MSG exists
    branch,      \* name of the checked-out branch
    remoteRefs,  \* paths of the remote-tracking refs, as path components
    args,        \* the parsed command line
    config,      \* the loaded configuration
    pc,          \* position of the run
    range,       \* commit_range / commit_hashes
    idx,         \* index of the for loop of process_commits (1-based)
    info,        \* result of get_commit_info for the current commit
    cand,        \* improved_message of the current commit
    req,         \* arguments of the pending rewrite_commit_message call
    last,        \* what the last call of rewrite_commit_message did
    calls,       \* number of calls of rewrite_commit_message so far
    confirmed,   \* the operator answered "y" to the shared-branch warning
    log,         \* per call of the engine: loop index, message, result
    head0,       \* the branch pointer when the run started
    otherHeads,  \* tips of the local branches main and master when they are
                 \* not the checked-out branch (the empty chain: no such branch)
    cfgFile,     \* the config file: (section, key) -> text of the value
    environ,     \* os.environ: variable name -> text of the value
    shared_reason, \* the local shared_reason of process_commits
    reason,      \* the reason passed to the last generation request
    decision,    \* the operator's decision on the current commit
    inspected,   \* loop indices for which get_commit_info was called
    prompts,     \* the rationale prompts so far: where asked, and the reply
    cfgFile0,    \* the config file before the first `config set`
    sets         \* the `config set` invocations so far, with their results

vars == << head, objects, backups, index, msgFile, branch, remoteRefs, args,
           config, pc, range, idx, info, cand, req, last, calls, confirmed,
           log, head0, otherHeads, cfgFile, environ, shared_reason, reason,
           decision, inspected, prompts, cfgFile0, sets >>

repoVars == << head, objects, backups, index, msgFile >>
envVars == << branch, remoteRefs, args, head0, otherHeads, cfgFile, environ,
             cfgFile0, sets >>

\* ------------------------------------------------------------ configuration
\* Text read from the config file or the environment is a sequence of
\* characters. A loaded value is a Python bool, int or str.
BoolV(b) == [t |-> "bool", n |-> IF b THEN 1 ELSE 0, s |-> << >>]
IntV(n) == [t |-> "int", n |-> n, s |-> << >>]
StrV(s) == [t |-> "str", n |-> 0, s |-> s]

\* Python's truth value of a loaded value.
Truthy(v) == IF v.t = "str" THEN v.s # << >> ELSE v.n # 0

DigitChars == << "0", "1", "2", "3", "4", "5", "6", "7", "8", "9" >>
UpperChars ==
    [T |-> "t", R |-> "r", U |-> "u", E |-> "e", Y |-> "y", S |-> "s", F |-> "f"]

\* str.lower()
lower(s) == [i \in 1..Len(s) |-> IF s[i] \in DOMAIN UpperChars THEN UpperChars[s[i]] ELSE s[i]]

\* str.isdigit()
isdigit(s) == s # << >> /\ \A i \in 1..Len(s) : \E d \in 1..10 : DigitChars[d] = s[i]

DigitValue(ch) == (CHOOSE d \in 1..10 : DigitChars[d] = ch) - 1

\* int(value) of an all-digit text
RECURSIVE int(_)
int(s) == IF s = << >> THEN 0 ELSE 10 * int(SubSeq(s, 1, Len(s) - 1)) + DigitValue(s[Len(s)])

\* The conversion load_config applies to every value of the file.
ConvertValue(value) ==
    IF lower(value) \in { <<"t","r","u","e">>, <<"y","e","s">>, <<"1">> }
    THEN BoolV(TRUE)
    ELSE IF lower(value) \in { <<"f","a","l","s","e">>, <<"n","o">>, <<"0">> }
    THEN BoolV(FALSE)
    ELSE IF isdigit(value)
    THEN IntV(int(value))
    ELSE StrV(value)

\* f with the value v at the key p.
SetKey(f, p, v) == [q \in DOMAIN f \cup {p} |-> IF q = p THEN v ELSE f[q]]

\* The built-in defaults of load_config.
Defaults ==
    (<<"defaults", "default_commit_count">> :> IntV(DefaultCommitCount))
    @@ (<<"defaults", "auto_apply">> :> BoolV(FALSE))
    @@ (<<"defaults", "prompt_user_for_why">> :> BoolV(TRUE))
    @@ (<<"behavior", "show_diff">> :> BoolV(TRUE))
    @@ (<<"behavior", "skip_merge_commits">> :> BoolV(TRUE))
    @@ (<<"behavior", "warn_on_shared_branches">> :> BoolV(TRUE))
    @@ (<<"behavior", "remove_quotes">> :> BoolV(TRUE))
    @@ (<<"formatting", "use_color">> :> BoolV(TRUE))
    @@ (<<"formatting", "message_style">> :> StrV(<<"d","e","s","c","r","i","p","t","i","v","e">>))
    @@ (<<"provider", "engine">> :> StrV(<<"g","p","t","-","4">>))

\* load_config(): the defaults, then the values of the file, then the
\* environment variables OPENROUTER_API_KEY, UNFCK_MODEL, UNFCK_AUTO_APPLY.
load_config(file, env) ==
    LET c0 == [p \in DOMAIN Defaults \cup DOMAIN file |->
                  IF p \in DOMAIN file THEN ConvertValue(file[p]) ELSE Defaults[p]]
        c1 == IF "OPENROUTER_API_KEY" \in DOMAIN env
              THEN SetKey(c0, <<"provider", "api_key">>, StrV(env["OPENROUTER_API_KEY"]))
              ELSE c0
        c2 == IF "UNFCK_MODEL" \in DOMAIN env
              THEN SetKey(c1, <<"provider", "engine">>, StrV(env["UNFCK_MODEL"]))
              ELSE c1
    IN  IF "UNFCK_AUTO_APPLY" \in DOMAIN env
        THEN SetKey(c2, <<"defaults", "auto_apply">>,
                    BoolV(lower(env["UNFCK_AUTO_APPLY"])
                              \in { <<"t","r","u","e">>, <<"y","e","s">>, <<"1">> }))
        ELSE c2

\* str(n) of a natural number
RECURSIVE str(_)
str(n) == IF n < 10 THEN << DigitChars[n + 1] >>
          ELSE Append(str(n \div 10), DigitChars[(n % 10) + 1])

\* str(value) of a loaded value: "True" / "False", the digits, the text.
str_value(v) ==
    IF v.t = "bool"
    THEN (IF v.n = 1 THEN <<"T","r","u","e">> ELSE <<"F","a","l","s","e">>)
    ELSE IF v.t = "int" THEN str(v.n)
    ELSE v.s

\* save_config(config): every section and key of the dictionary is written,
\* each value as str(value).
save_config(cfg) == [p \in DOMAIN cfg |-> str_value(cfg[p])]

\* The sections of a loaded configuration.
Sections(cfg) == { p[1] : p \in DOMAIN cfg }

\* set_config_value(section, key, value): the file it leaves. The loaded
\* configuration (file and environment) with the one value replaced is
\* saved, unless the section is none of the loaded ones.
set_config_value(file, env, section, key, value) ==
    LET cfg == load_config(file, env)
    IN  IF section \notin Sections(cfg)
        THEN file
        ELSE save_config(SetKey(cfg, <<section, key>>, ConvertValue(value)))

\* config.get(section, {}).get(key, default)
Get(cfg, section, key, default) ==
    IF <<section, key>> \in DOMAIN cfg THEN cfg[<<section, key>>] ELSE default

\* ------------------------------------------------------------ commit graph
Min(a, b) == IF a < b THEN a ELSE b

\* The commit at position i of history h, as an identity.
CommitAt(h, i) == SubSeq(h, 1, i)

\* Identities of all commits reachable from the commit c (c included).
Reachable(c) == { CommitAt(c, i) : i \in 1..Len(c) }

\* c is the commit h or one of its ancestors.
IsInHistory(c, h) == Len(c) >= 1 /\ Len(c) <= Len(h) /\ CommitAt(h, Len(c)) = c

\* The parent of c; the empty chain when c has none.
Parent(c) == SubSeq(c, 1, Len(c) - 1)

\* The commit object of the commit c.
Object(c) == c[Len(c)]

\* The message lists of the initial histories: 1..MaxLen commits, at most
\* one of which this tool has rewritten before.
Histories ==
    { m \in UNION { [1..n -> InitMsgs] : n \in 1..MaxLen } :
        Cardinality({ i \in 1..Len(m) : ~m[i].nl }) <= 1 }

\* The history whose i-th commit has message m[i] and touches file i.
MakeHistory(m) ==
    [i \in 1..Len(m) |->
        [msg |-> m[i], author |-> Author, diff |-> {<<"file", i>>}, cdate |-> 0,
         merge |-> FALSE]]

\* The commit `git merge --no-ff topic` makes: its second parent is the
\* commit before it in the chain (the tip of topic), its first parent an
\* earlier commit of the chain, so that every commit of the chain before it
\* is one of its ancestors. The merge is clean: `git show` prints no diff.
MergeCommit ==
    [msg |-> [text |-> MergeText, nl |-> TRUE], author |-> Author, diff |-> {},
     cdate |-> 0, merge |-> TRUE]

\* The initial histories: the linear ones, and those of three commits or
\* more that end with the merge of a topic branch.
InitHistories ==
    { MakeHistory(m) : m \in Histories } \cup
    { Append(MakeHistory(m), MergeCommit) :
        m \in { x \in Histories : Len(x) >= 2 /\ Len(x) < MaxLen } }

\* A commit made on the trunk only.
TrunkCommit ==
    [msg |-> [text |-> PoorText, nl |-> TRUE], author |-> Author,
     diff |-> {<<"trunk", 1>>}, cdate |-> 0, merge |-> FALSE]

\* Where a trunk branch can point when history h is checked out on another
\* branch: at the root or at the parent of the tip, at a commit of its own
\* on top of the root (the branches have diverged), or at a root of its own
\* (the branches have no common ancestor).
TrunkTips(h) ==
    { CommitAt(h, i) : i \in {1, Len(h) - 1} \ {0} }
    \cup { << h[1], TrunkCommit >>, << TrunkCommit >> }

\* ------------------------------------------------------------ git, reading
\* A rev-list that lists oldest first.
rev_list_oldest_first(tip, n) ==
    LET k == IF n < 0 THEN Len(tip) ELSE Min(n, Len(tip))
    IN  [i \in 1..k |-> CommitAt(tip, i)]

\* `git rev-list --max-count=n tip`: the commits reachable from tip, most
\* recent first; n = 0 lists nothing and a negative n means no limit.
rev_list(tip, n) ==
    LET k == IF n < 0 THEN Len(tip) ELSE Min(n, Len(tip))
    IN  [i \in 1..k |-> CommitAt(tip, Len(tip) - i + 1)]

\* `git rev-list a..tip`: the commits of tip's history not reachable from a
\* (a may be the empty chain: nothing is excluded), most recent first.
rev_list_range(a, tip) ==
    LET keep == { i \in 1..Len(tip) : CommitAt(tip, i) \notin Reachable(a) }
        k == Cardinality(keep)
    IN  [i \in 1..k |-> CommitAt(tip, Len(tip) - i + 1)]

\* The tip of the local branch b; the empty chain when there is none.
Tip(b) ==
    IF b = branch THEN head
    ELSE IF b \in DOMAIN otherHeads THEN otherHeads[b]
    ELSE << >>

\* repo.heads: the names of the local branches.
heads == {branch} \cup { b \in DOMAIN otherHeads : otherHeads[b] # << >> }

\* A choice of trunk that prefers master.
trunk_name_master_first == IF "master" \in heads THEN "master" ELSE "main"

\* main_branch = 'main' if 'main' in repo.heads else 'master'
trunk_name == IF "main" \in heads THEN "main" ELSE "master"

\* `git merge-base b trunk`: the most recent commit both tips reach. The
\* command fails (the empty chain) when a name is no branch and when the
\* tips have no commit in common.
merge_base(b, trunk) ==
    LET n == Min(Len(Tip(b)), Len(Tip(trunk)))
        common == { i \in 1..n : CommitAt(Tip(b), i) = CommitAt(Tip(trunk), i) }
    IN  IF common = {} THEN << >>
        ELSE CommitAt(Tip(b), CHOOSE i \in common : \A j \in common : j <= i)

\* `git rev-list --all`: the commits reachable from any ref, most recent
\* first. Backup refs and remote-tracking refs point into the histories of
\* the local branches; a commit made on another branch only is more recent
\* than the commits of the checked-out branch.
rev_list_all ==
    LET ofMain == rev_list_range(head, Tip("main"))
        ofMaster == SelectSeq(rev_list_range(head, Tip("master")),
                              LAMBDA c : c \notin Reachable(Tip("main")))
    IN  ofMain \o ofMaster \o rev_list(head, -1)

\* iter_commits('HEAD', max_count=v) with a loaded config value v: GitPython
\* turns True into a bare `--max-count` (git: usage error, the selector
\* returns []), drops the option for False (no limit) and passes an int as
\* `--max-count=<n>`.
rev_list_max_count(tip, v) ==
    IF v.t = "bool"
    THEN (IF v.n = 1 THEN << >> ELSE rev_list(tip, -1))
    ELSE IF v.t = "int"
    THEN rev_list(tip, v.n)
    ELSE << >>

\* get_commit_range(args, config)
get_commit_range(a, cfg) ==
    IF a.command = "last"
    THEN rev_list(head, a.count)
    ELSE IF a.command = "."
    THEN LET base == merge_base(branch, trunk_name)
         IN  IF base = << >>
             THEN rev_list(head, -1)
             ELSE rev_list_range(base, head)
    ELSE IF a.all_branches
    THEN rev_list_all
    ELSE IF a.only_main
    THEN \* a trunk that does not exist: GitCommandError, return []
         rev_list(Tip(trunk_name), -1)
    ELSE \* "first" has no branch of its own: with neither --all-branches
         \* nor --only-main the default applies
         rev_list_max_count(head,
             Get(cfg, "defaults", "default_commit_count", IntV(DefaultCommitCount)))

\* get_commit_info(commit_hash): ("", "", "") when the hash does not resolve.
get_commit_info(c) ==
    IF c \in objects
    THEN [message |-> Object(c).msg.text, author |-> Object(c).author,
          diff |-> Object(c).diff]
    ELSE [message |-> "", author |-> "", diff |-> {}]

\* An is_head_commit that answers True when it cannot read the tip.
is_head_commit_unless_unreadable(c, readable) == ~readable \/ c = head

\* is_head_commit(commit_hash): `git rev-parse HEAD` equals the hash; False
\* when the command fails (readable: whether it succeeds).
is_head_commit(c, readable) == readable /\ c = head

\* is_root_commit(commit_hash): `git rev-parse <hash>^` fails, which it does
\* when the commit has no parent and also when the hash does not resolve.
\* objs is the object store at the time of the call.
is_root_commit(c, objs) == c \notin objs \/ Len(c) = 1

\* GitPython's Reference.name: the path without its first two components.
RefName(path) == IF Len(path) < 3 THEN path ELSE SubSeq(path, 3, Len(path))

\* is_shared_branch(): compares the full path refs/remotes/<remote>/<branch>
\* with the names of the remote's refs.
is_shared_branch ==
    \E r \in remoteRefs :
        << "refs", "remotes", r[3], branch >> \in { RefName(p) : p \in remoteRefs }

\* clean_message(message): strip one pair of surrounding double quotes.
clean_message(m) == IF m = QuotedText THEN FixText ELSE m

\* ------------------------------------------------------------ git, writing
\* An amend in which --no-edit wins over -F: the message is kept.
commit_amend_no_edit(h, new_message, idxState) ==
    [h EXCEPT ![Len(h)] =
        [msg |-> @.msg,
         author |-> @.author,
         diff |-> @.diff \cup (IF idxState = "staged" THEN {StagedChange} ELSE {}),
         cdate |-> @.cdate + 1, merge |-> @.merge]]

\* `git commit --amend -F <file> --no-edit`: a new tip with the file's text
\* as message (git completes the last line), the same parent and author, a
\* later committer date, and whatever the index holds folded into its diff.
commit_amend(h, new_message, idxState) ==
    [h EXCEPT ![Len(h)] =
        [msg |-> [text |-> new_message, nl |-> TRUE],
         author |-> @.author,
         diff |-> @.diff \cup (IF idxState = "staged" THEN {StagedChange} ELSE {}),
         cdate |-> @.cdate + 1, merge |-> @.merge]]

\* A filter without the test of $GIT_COMMIT: every commit gets the file.
msg_filter_every_commit(c, commit_hash, new_message) ==
    [text |-> new_message, nl |-> FALSE]

\* The --msg-filter of rewrite_past_commit, run for the commit c:
\* if [ "$GIT_COMMIT" = "<commit_hash>" ]; then cat <file>; else cat; fi
\* `cat <file>` gives the file's bytes, which end without a newline.
msg_filter(c, commit_hash, new_message) ==
    IF c = commit_hash
    THEN [text |-> new_message, nl |-> FALSE]
    ELSE Object(c).msg

\* `git filter-branch --msg-filter ... <commit_hash>^..HEAD` over history h:
\* every commit of the range is written again with the filtered message;
\* author, diff and committer date are kept; commits outside the range are
\* not touched. The identity of a rewritten commit changes when its message
\* or an ancestor's changed.
filter_branch(h, commit_hash, new_message) ==
    [i \in 1..Len(h) |->
        IF CommitAt(h, i) \notin Reachable(Parent(commit_hash))
        THEN [h[i] EXCEPT !.msg = msg_filter(CommitAt(h, i), commit_hash, new_message)]
        ELSE h[i]]

\* clean_filter_branch_backup(), the refs: when refs/original/ is not empty,
\* delete the backup of the current branch, of master and of main.
clean_filter_branch_backup(bk) ==
    IF bk = {} THEN bk ELSE bk \ {branch, "master", "main"}

\* clean_filter_branch_backup(), the objects: when refs/original/ was not
\* empty, `git reflog expire --expire=now --all` and `git gc --prune=now`
\* drop every commit object no ref reaches.
gc_after_cleanup(bk, objs) ==
    IF bk = {} THEN objs ELSE UNION { Reachable(Tip(b)) : b \in heads }

\* The record of one call of rewrite_commit_message.
\* kind: the strategy taken; pre: the branch pointer before the call;
\* live: the target was a commit of the branch history; fault: the fault of
\* the environment that hit the call ("none": no fault); cmds: the git
\* commands the call ran; tipRead: is_head_commit could read the tip;
\* cleaned: the backup refs left when clean_filter_branch_backup returned.
Outcome(kind, c, m, ok, fault, cmds, readable, cleaned) ==
    [kind |-> kind, target |-> c, msg |-> m, ok |-> ok, pre |-> head,
     live |-> IsInHistory(c, head), fault |-> fault, cmds |-> cmds,
     tipRead |-> readable, cleaned |-> cleaned]

NoOutcome ==
    [kind |-> "none", target |-> << >>, msg |-> None, ok |-> FALSE,
     pre |-> << >>, live |-> FALSE, fault |-> "none", cmds |-> {},
     tipRead |-> TRUE, cleaned |-> {}]

\* ------------------------------------------------------------------- Init
\* The command lines of a run: `last N`, `first N` and `.`, with and without
\* --all-branches / --only-main (mutually exclusive), --just-fix-it,
\* --ask-why, --why and --dry-run. argparse accepts any integer as N; `.`
\* has no count.
ArgSpace ==
    { a \in [command : Commands, count : -1..MaxCount,
             just_fix_it : BOOLEAN, dry_run : BOOLEAN,
             all_branches : BOOLEAN, only_main : BOOLEAN,
             ask_why : BOOLEAN, why : {None, Because}] :
        /\ a.command \in {".", "config"} => a.count = 0
        /\ a.command = "config" =>
                (/\ ~a.just_fix_it /\ ~a.dry_run /\ ~a.all_branches
                 /\ ~a.only_main /\ ~a.ask_why /\ a.why = None)
        /\ a.command = "first" => a.count \in {0, 1}
        /\ ~(a.all_branches /\ a.only_main) }

\* Config files. Quiet switches the reason prompt off; the others add one
\* more setting to it.
NoFile == << >>
Quiet == (<<"defaults", "prompt_user_for_why">> :> <<"f","a","l","s","e">>)
QuietAuto == Quiet @@ (<<"defaults", "auto_apply">> :> <<"t","r","u","e">>)
QuietNoWarn == Quiet @@ (<<"behavior", "warn_on_shared_branches">> :> <<"n","o">>)
QuietCount(text) == Quiet @@ (<<"defaults", "default_commit_count">> :> text)
ProviderFile ==
    (<<"provider", "engine">> :> <<"c","l","a","u","d","e">>)
    @@ (<<"provider", "api_key">> :> <<"s","k","-","f">>)
    @@ (<<"defaults", "auto_apply">> :> <<"Y","e","s">>)
    @@ (<<"behavior", "show_diff">> :> <<"n","o">>)

\* Environments: empty, or with the variables load_config reads.
NoEnv == << >>
AutoEnv == ("UNFCK_AUTO_APPLY" :> <<"T","R","U","E">>)
FullEnv ==
    ("OPENROUTER_API_KEY" :> <<"s","k","-","e">>)
    @@ ("UNFCK_MODEL" :> <<"g","p","t","-","3">>)
    @@ ("UNFCK_AUTO_APPLY" :> <<"o","f","f">>)

\* The runs explored.
\* Plain runs have no scope option and no reason option, an empty
\* environment and a config file that switches the reason prompt off.
PlainRun(r) ==
    /\ ~r.args.all_branches /\ ~r.args.only_main
    /\ ~r.args.ask_why /\ r.args.why = None
    /\ r.env = NoEnv

\* `last N`, every mode; the shared-branch warning is disabled only in runs
\* over the last commit, and --just-fix-it is given only where the config
\* does not already set auto_apply.
LastRun(r) ==
    /\ r.args.command = "last"
    /\ PlainRun(r)
    /\ r.file \in {Quiet, QuietAuto, QuietNoWarn}
    /\ r.file = QuietNoWarn => r.args.count = 1
    /\ ~(r.args.just_fix_it /\ r.file = QuietAuto)

\* `first N`, `.` and `last 1` with a scope option, with --just-fix-it.
\* A config file sets default_commit_count only where the command reads it.
ScopeRun(r) ==
    /\ r.args.command # "config"
    /\ r.args.command # "last" \/ r.args.all_branches \/ r.args.only_main
    /\ r.args.command = "last" => r.args.count = 1
    /\ ~r.args.ask_why /\ r.args.why = None
    /\ r.env = NoEnv
    /\ r.args.just_fix_it
    /\ r.file \in {Quiet, QuietCount(str(CfgCount)), QuietCount(<<"1">>), QuietCount(<<"0">>)}
    /\ r.file # Quiet =>
            (r.args.command = "first" /\ ~r.args.all_branches /\ ~r.args.only_main)

\* Runs with --why or --ask-why, with and without the default reason prompt.
WhyRun(r) ==
    /\ r.args.command = "last"
    /\ r.args.count \in {1, 2}
    /\ ~r.args.all_branches /\ ~r.args.only_main
    /\ r.args.ask_why \/ r.args.why # None \/ r.file = NoFile
    /\ r.args.just_fix_it \/ r.args.dry_run
    /\ r.file \in {NoFile, Quiet}
    /\ r.env = NoEnv

\* Runs over the last commit with the other files and environments.
ConfigRun(r) ==
    /\ r.args.command = "last"
    /\ r.args.count = 1
    /\ ~r.args.all_branches /\ ~r.args.only_main
    /\ ~r.args.ask_why /\ r.args.why = None
    /\ ~r.args.just_fix_it
    /\ r.file \in {NoFile, QuietAuto, ProviderFile, QuietCount(<<"1","0">>)}
    /\ r.env \in {NoEnv, AutoEnv, FullEnv}
    /\ r.file = NoFile => r.env # NoEnv

\* Sessions of `config set` invocations.
SetRun(r) ==
    /\ r.args.command = "config"
    /\ r.file \in {NoFile, Quiet, ProviderFile}

ConfigFiles ==
    {NoFile, Quiet, QuietAuto, QuietNoWarn, ProviderFile}
    \cup { QuietCount(t) : t \in {str(CfgCount), <<"1">>, <<"0">>, <<"1","0">>} }

RunSpace ==
    { r \in [args : ArgSpace, file : ConfigFiles, env : {NoEnv, AutoEnv, FullEnv}] :
        LastRun(r) \/ ScopeRun(r) \/ WhyRun(r) \/ ConfigRun(r) \/ SetRun(r) }

\* What get_commit_info returns for a hash that does not resolve.
NoInfo == [message |-> EmptyText, author |-> EmptyText, diff |-> {}]
NoRequest == [target |-> << >>, msg |-> None]

\* A repository without a trunk branch beside the checked-out branch.
NoTrunk == [main |-> << >>, master |-> << >>]

\* The local branches beside the checked-out branch b with history h: none;
\* or, on feature, a trunk main, a trunk master at the root, or both.
OtherHeads(b, h) ==
    IF b = "main" THEN {NoTrunk}
    ELSE {NoTrunk}
         \cup { [main |-> t, master |-> << >>] : t \in TrunkTips(h) }
         \cup { [main |-> << >>, master |-> CommitAt(h, 1)] }
         \cup { [main |-> CommitAt(h, 1), master |-> << TrunkCommit >>] }

\* A repository whose remote `origin` has the branch main, checked out on
\* main or on a local branch feature. Runs of `last N` start with or without
\* a change in the index and a backup ref left by an earlier rewrite of
\* feature; the runs with a scope start with or without a trunk branch, on
\* a history this tool has not rewritten before.
Init ==
    /\ \E r \in RunSpace :
        /\ args = r.args /\ cfgFile = r.file /\ environ = r.env
        /\ head \in InitHistories
        /\ ScopeRun(r) => \A i \in 1..Len(head) : head[i].msg.nl
        /\ branch \in BranchNames
        /\ SetRun(r) => (Len(head) = 1 /\ head[1].msg.nl /\ branch = "main")
        /\ IF LastRun(r)
           THEN /\ backups \in { {}, {"feature"} }
                /\ index \in {"clean", "staged"}
           ELSE /\ backups = {}
                /\ index = "clean"
        /\ IF ScopeRun(r)
           THEN otherHeads \in OtherHeads(branch, head)
           ELSE otherHeads = NoTrunk
    /\ objects = Reachable(head) \cup Reachable(otherHeads.main)
                    \cup Reachable(otherHeads.master)
    /\ msgFile = FALSE
    /\ remoteRefs = { << "refs", "remotes", "origin", "main" >> }
    /\ config = Defaults
    /\ pc = "main"
    /\ range = << >>
    /\ idx = 1
    /\ info = NoInfo
    /\ cand = None
    /\ req = NoRequest
    /\ last = NoOutcome
    /\ calls = 0
    /\ confirmed = FALSE
    /\ log = << >>
    /\ head0 = head
    /\ shared_reason = None
    /\ reason = None
    /\ decision = None
    /\ inspected = << >>
    /\ prompts = << >>
    /\ cfgFile0 = cfgFile
    /\ sets = << >>

\* ------------------------------------------------------------ the workflow
\* main(): validate_args, load_config, get_commit_range, exit when the range
\* is empty.
Main ==
    /\ pc = "main"
    /\ args.command # "config"
    /\ config' = load_config(cfgFile, environ)
    /\ range' = get_commit_range(args, config')
    /\ pc' = IF range' = << >> THEN "exit" ELSE "process"
    /\ UNCHANGED << repoVars, envVars, idx, info, cand, req, last, calls,
                    confirmed, log, shared_reason, reason, decision, inspected, prompts >>

\* The sections, keys and values given to `config set`.
SetSections == {"defaults", "provider", "nosuch"}
SetKeys == {"auto_apply", "api_key"}
SetValues == { <<"t","r","u","e">>, str(CfgCount), <<"s","k","-","n">> }

\* main() -> handle_config_command -> set_config_value: one invocation of
\* `config set section key value`; it fails on a section that is not loaded.
ConfigSet ==
    /\ pc = "main"
    /\ args.command = "config"
    /\ Len(sets) < MaxSets
    /\ \E section \in SetSections, key \in SetKeys, value \in SetValues :
        /\ cfgFile' = set_config_value(cfgFile, environ, section, key, value)
        /\ sets' = Append(sets, [section |-> section, key |-> key, value |-> value,
                                 ok |-> section \in Sections(load_config(cfgFile, environ))])
    /\ UNCHANGED << repoVars, branch, remoteRefs, args, head0, otherHeads, environ,
                    cfgFile0, config, pc, range, idx, info, cand, req, last,
                    calls, confirmed, log, shared_reason, reason, decision,
                    inspected, prompts >>

\* auto_apply, ask_why, global_why and dry_run as main() hands them to
\* process_commits.
auto_apply == args.just_fix_it \/ Truthy(Get(config, "defaults", "auto_apply", BoolV(FALSE)))
ask_why == args.ask_why \/ Truthy(Get(config, "defaults", "prompt_user_for_why", BoolV(FALSE)))
global_why == args.why
dry_run == args.dry_run

\* What the operator can type at a reason prompt (input().strip()).
Replies == {EmptyText, TypedReason}

\* process_commits(), up to the loop: the shared-branch warning, then the
\* shared reason.
\* One rationale prompt: asked before the loop (at = 0) or for the commit
\* at loop index at, with the operator's stripped reply.
Prompt(at, reply) == [at |-> at, reply |-> reply]

\* `if ask_why and len(commit_hashes) > 1`: one prompt for the whole range.
PromptsOnce == ask_why /\ Len(range) > 1

\* A loop that prompts for every commit whenever ask_why is set.
PromptsPerCommitAlways == ask_why

\* `if ask_why and len(commit_hashes) == 1`: a prompt for the single commit.
PromptsPerCommit == ask_why /\ Len(range) = 1

\* The warning on a shared branch; then the shared reason: the reply to one
\* prompt when ask_why is set and the range has several commits, the --why
\* text otherwise.
ProcessStart ==
    /\ pc = "process"
    /\ IF /\ Truthy(Get(config, "behavior", "warn_on_shared_branches", BoolV(TRUE)))
          /\ ~dry_run
          /\ ~auto_apply
          /\ is_shared_branch
       THEN \E choice \in {"y", "n"} :
                /\ confirmed' = (choice = "y")
                /\ pc' = IF choice = "y" THEN "loop" ELSE "exit"
       ELSE /\ pc' = "loop"
            /\ UNCHANGED confirmed
    /\ IF pc' = "loop" /\ PromptsOnce
       THEN \E reply \in Replies :
                /\ shared_reason' = reply
                /\ prompts' = Append(prompts, Prompt(0, reply))
       ELSE /\ shared_reason' = global_why
            /\ UNCHANGED prompts
    /\ idx' = 1
    /\ UNCHANGED << repoVars, envVars, config, range, info, cand, req, last,
                    calls, log, reason, decision, inspected >>

\* The for loop is exhausted: "Done!".
LoopEnd ==
    /\ pc = "loop"
    /\ idx > Len(range)
    /\ pc' = "exit"
    /\ UNCHANGED << repoVars, envVars, config, range, idx, info, cand, req,
                    last, calls, confirmed, log, shared_reason, reason,
                    decision, inspected, prompts >>

\* A loop that ends at the first commit it cannot handle.
Break ==
    /\ pc' = "exit"
    /\ idx' = idx
    /\ info' = NoInfo
    /\ cand' = None
    /\ UNCHANGED req

\* The `continue` statements of the loop: on to the next commit. info and
\* cand are locals the next iteration assigns before it reads them.
SkipCommit ==
    /\ pc' = "loop"
    /\ idx' = idx + 1
    /\ info' = NoInfo
    /\ cand' = None
    /\ UNCHANGED req

\* get_commit_info for the next commit, `continue` when it gives nothing;
\* then the reason: prompted for when ask_why is set and the range has one
\* commit, the shared reason otherwise.
Inspect ==
    /\ pc = "loop"
    /\ idx <= Len(range)
    /\ inspected' = Append(inspected, idx)
    /\ decision' = None
    /\ LET i == get_commit_info(range[idx])
       IN  IF i.message = EmptyText \/ i.diff = {}
           THEN SkipCommit /\ UNCHANGED << reason, prompts >>
           ELSE /\ pc' = "generate" /\ idx' = idx /\ info' = i
                /\ UNCHANGED << cand, req >>
                /\ IF PromptsPerCommit
                   THEN \E reply \in Replies :
                            /\ reason' = reply
                            /\ prompts' = Append(prompts, Prompt(idx, reply))
                   ELSE /\ reason' = shared_reason
                        /\ UNCHANGED prompts
    /\ UNCHANGED << repoVars, envVars, config, range, last, calls, confirmed,
                    log, shared_reason >>

\* get_improved_message and clean_message; `continue` when there is none.
Generate ==
    /\ pc = "generate"
    /\ \E answer \in {None, GoodText, QuotedText} :
        IF answer = None
        THEN SkipCommit
        ELSE /\ pc' = "decide" /\ idx' = idx
             /\ cand' = IF Truthy(Get(config, "behavior", "remove_quotes", BoolV(TRUE)))
                        THEN clean_message(answer)
                        ELSE answer
             /\ UNCHANGED << info, req >>
    /\ UNCHANGED << repoVars, envVars, config, range, last, calls, confirmed,
                    log, shared_reason, reason, decision, inspected, prompts >>

\* A loop body that stays on the same commit.
Stay ==
    /\ pc' = "loop"
    /\ idx' = idx
    /\ info' = NoInfo
    /\ cand' = None
    /\ UNCHANGED req

\* The loop body ends without a call of the engine.
Continue ==
    /\ pc' = "loop"
    /\ idx' = idx + 1
    /\ info' = NoInfo
    /\ cand' = None
    /\ UNCHANGED req

\* A call of the engine whatever dry_run says.
ApplyAlways(message) ==
    /\ pc' = "engine"
    /\ idx' = idx
    /\ req' = [target |-> range[idx], msg |-> message]
    /\ UNCHANGED << info, cand >>

\* The call rewrite_commit_message(commit_hash, message), unless dry_run.
Apply(message) ==
    IF dry_run
    THEN Continue
    ELSE /\ pc' = "engine"
         /\ idx' = idx
         /\ req' = [target |-> range[idx], msg |-> message]
         /\ UNCHANGED << info, cand >>

\* if auto_apply: apply without asking.
ApplyAuto ==
    /\ pc = "decide"
    /\ auto_apply
    /\ decision' = "auto"
    /\ Apply(cand)
    /\ UNCHANGED << repoVars, envVars, config, range, last, calls, confirmed,
                    log, shared_reason, reason, inspected, prompts >>

\* else: prompt_for_action, then y / e (edit_message, clean_message) / n / s.
\* The editor returns the candidate unchanged or a text the operator typed.
PromptForAction ==
    /\ pc = "decide"
    /\ ~auto_apply
    /\ \E action \in {"y", "n", "e", "s"} :
        /\ decision' = action
        /\ CASE action = "y" -> Apply(cand)
             [] action = "e" ->
                   \E edited \in {cand, QuotedText} :
                       Apply(IF Truthy(Get(config, "behavior", "remove_quotes", BoolV(TRUE)))
                             THEN clean_message(edited)
                             ELSE edited)
             [] OTHER -> Continue
    /\ UNCHANGED << repoVars, envVars, config, range, last, calls, confirmed,
                    log, shared_reason, reason, inspected, prompts >>

\* ------------------------------------------------------------- the engine
\* A return of the engine after which the loop stays on the same commit.
EngineReturnSameCommit(outcome) ==
    /\ last' = outcome
    /\ calls' = calls + 1
    /\ log' = Append(log, [pos |-> idx, msg |-> outcome.msg, ok |-> outcome.ok,
                            live |-> outcome.live])
    /\ idx' = idx
    /\ pc' = "decide"
    /\ info' = info
    /\ cand' = cand
    /\ req' = NoRequest
    /\ UNCHANGED << envVars, config, range, confirmed, shared_reason, reason,
                    decision, inspected, prompts >>

\* What every return of rewrite_commit_message leaves behind in the run.
EngineReturn(outcome) ==
    /\ last' = outcome
    /\ calls' = calls + 1
    /\ log' = Append(log, [pos |-> idx, msg |-> outcome.msg, ok |-> outcome.ok,
                            live |-> outcome.live])
    /\ idx' = idx + 1
    /\ pc' = "loop"
    /\ info' = NoInfo
    /\ cand' = None
    /\ req' = NoRequest
    /\ UNCHANGED << envVars, config, range, confirmed, shared_reason, reason,
                    decision, inspected, prompts >>

\* rewrite_commit_message -> rewrite_head_commit(new_message).
\* fault is what the environment does to the call: "io" makes open() raise,
\* "git" makes `git commit` exit non-zero (a hook, no identity, a lock).
rewrite_head_commit ==
    /\ pc = "engine"
    /\ \E readable \in BOOLEAN, fault \in {"none", "io", "git"} :
        LET c == req.target
            m == req.msg
        IN  /\ is_head_commit(c, readable)
            /\ IF fault = "io"
               THEN \* except Exception: return False
                    /\ UNCHANGED repoVars
                    /\ EngineReturn(Outcome("amend", c, m, FALSE, fault, {},
                                            readable, {}))
               ELSE IF fault = "git"
               THEN \* except CalledProcessError: return False
                    /\ msgFile' = TRUE
                    /\ UNCHANGED << head, objects, backups, index >>
                    /\ EngineReturn(Outcome("amend", c, m, FALSE, fault,
                                            {"commit --amend"}, readable, {}))
               ELSE /\ head' = commit_amend(head, m, index)
                    /\ objects' = objects \cup {head'}
                    /\ index' = "clean"
                    /\ msgFile' = FALSE
                    /\ UNCHANGED backups
                    /\ EngineReturn(Outcome("amend", c, m, TRUE, fault,
                                            {"commit --amend"}, readable, {}))

\* The git commands clean_filter_branch_backup runs.
CleanupCmds(bk) ==
    {"for-each-ref"} \cup
    (IF bk = {} THEN {} ELSE {"branch --show-current", "update-ref -d", "reflog expire", "gc"})

\* rewrite_commit_message -> rewrite_past_commit(commit_hash, new_message).
\* fault: "io" makes open() raise; "early" makes filter-branch fail while it
\* filters (before it moves any ref); "late" makes it fail in its last step,
\* the checkout of the rewritten tip, after it has moved the branch. A call
\* that git refuses before it starts meets no fault. `git rev-parse HEAD`
\* is explored failing where it decides the strategy (the target is the
\* tip), and then with no further fault.
rewrite_past_commit ==
    /\ pc = "engine"
    /\ \E readable \in (IF req.target = head THEN {FALSE} ELSE {TRUE}),
          fault \in {"none", "io", "early", "late"} :
        LET c == req.target
            m == req.msg
            bk1 == clean_filter_branch_backup(backups)
            ob1 == gc_after_cleanup(backups, objects)
            is_root == is_root_commit(c, ob1)
            cmds == CleanupCmds(backups) \cup {"rev-parse", "filter-branch"}
            \* "--root" is no option of filter-branch: usage error; and
            \* filter-branch refuses to start on an index with changes
            refused == is_root \/ index = "staged"
            nothing == rev_list_range(Parent(c), head) = << >>
            rewritten == filter_branch(head, c, m)
        IN  /\ ~is_head_commit(c, readable)
            /\ ~readable => fault = "none"
            /\ IF fault = "io"
               THEN \* except Exception: remove the file, return False
                    /\ msgFile' = FALSE
                    /\ UNCHANGED << head, objects, backups, index >>
                    /\ EngineReturn(Outcome("rebuild", c, m, FALSE, fault, {},
                                            readable, backups))
               ELSE IF refused
               THEN /\ backups' = bk1
                    /\ objects' = ob1
                    /\ msgFile' = FALSE
                    /\ UNCHANGED << head, index >>
                    /\ EngineReturn(Outcome("rebuild", c, m, FALSE, "none", cmds,
                                            readable, bk1))
               ELSE IF fault = "early" \/ nothing
               THEN \* --force has already deleted every ref under refs/original/
                    /\ backups' = {}
                    /\ objects' = ob1
                    /\ msgFile' = FALSE
                    /\ UNCHANGED << head, index >>
                    /\ EngineReturn(Outcome("rebuild", c, m, FALSE, fault, cmds,
                                            readable, bk1))
               ELSE \* the branch moves, and its old value is kept as a backup
                    \* ref unless it did not change
                    /\ head' = rewritten
                    /\ backups' = IF rewritten = head THEN {} ELSE {branch}
                    /\ objects' = ob1 \cup Reachable(rewritten)
                    /\ msgFile' = FALSE
                    /\ UNCHANGED index
                    /\ EngineReturn(Outcome("rebuild", c, m, fault = "none", fault,
                                            cmds, readable, bk1))

Next ==
    \/ ConfigSet
    \/ Main
    \/ ProcessStart
    \/ LoopEnd
    \/ Inspect
    \/ Generate
    \/ ApplyAuto
    \/ PromptForAction
    \/ rewrite_head_commit
    \/ rewrite_past_commit

Spec == Init /\ [][Next]_vars

\* ------------------------------------------------------------- properties
\* The branch history before the last call of the engine, and after it (the
\* branch pointer only moves inside a call of the engine).
Pre == last.pre
TargetPos == Len(last.target)
NewRawMessage == [text |-> last.msg, nl |-> FALSE]

\* C1: a successful rewrite of the tip changes only the tip's message: same
\* commit count, same parent, same author and diff.
C1_TipRewriteChangesOnlyMessage ==
    (last.kind = "amend" /\ last.ok) =>
        /\ Len(head) = Len(Pre)
        /\ Parent(head) = Parent(Pre)
        /\ Object(head).author = Object(Pre).author
        /\ Object(head).diff = Object(Pre).diff

\* A successful rewrite of an ancestor of the tip that is not the tip.
AncestorRewritten ==
    last.kind = "rebuild" /\ last.ok /\ last.live /\ last.target # Pre

\* What a successful ancestor rewrite keeps: the commit count, the identity
\* of every strict ancestor of the target, the message of every commit but
\* the target, the author and diff of every commit; and the target's
\* position carries the new message.
RebuildFrame ==
    /\ Len(head) = Len(Pre)
    /\ \A i \in 1..(TargetPos - 1) : CommitAt(head, i) = CommitAt(Pre, i)
    /\ head[TargetPos].msg.text = last.msg
    /\ \A i \in 1..Len(Pre) :
        /\ i # TargetPos => head[i].msg = Pre[i].msg
        /\ head[i].author = Pre[i].author
        /\ head[i].diff = Pre[i].diff

\* The target and every descendant up to the tip have a new identity.
DescendantsRenamed ==
    \A i \in TargetPos..Len(Pre) : CommitAt(head, i) # CommitAt(Pre, i)

\* C2 (as claimed): a successful ancestor rewrite keeps the frame and gives
\* the target and every descendant a new identity.
C2_AncestorRewriteRenamesDescendants ==
    AncestorRewritten => (RebuildFrame /\ DescendantsRenamed)

\* C2 (amended): a successful ancestor rewrite keeps the frame; the target
\* and every descendant get new identities when the new message differs
\* from the bytes of the message the target already has, and when it does
\* not, the branch pointer does not move.
C2_AncestorRewrite ==
    AncestorRewritten =>
        /\ RebuildFrame
        /\ IF Pre[TargetPos].msg # NewRawMessage
           THEN DescendantsRenamed
           ELSE head = Pre

\* C2, witness: the middle commit of three was rewritten and the branch moved.
C2_Witness ==
    /\ AncestorRewritten
    /\ TargetPos = 2
    /\ Len(Pre) = 3
    /\ head # Pre

\* C3: the rewrite of the root commit, when it is not the tip, succeeds when
\* nothing in the environment stands in its way (no fault, a clean index).
C3_RootRewriteSucceeds ==
    (/\ last.kind = "rebuild"
     /\ last.live
     /\ TargetPos = 1
     /\ last.target # Pre
     /\ last.fault = "none"
     /\ index = "clean") => last.ok

\* The git commands that would undo a rewrite in progress.
RollbackCmds == {"update-ref refs/heads", "reset --hard", "rebase --abort"}

\* C4: a call of the engine that ran a mutation and failed has attempted a
\* rollback.
C4_FailedMutationRolledBack ==
    (last.kind # "none" /\ ~last.ok /\ last.cmds # {}) =>
        (last.cmds \cap RollbackCmds # {})

\* C5: after every return of the engine .git/COMMIT_MSG does not exist.
C5_NoStagingFileAfterReturn ==
    last.kind # "none" => ~msgFile

\* The last mutation failed and was not undone: the branch pointer is not
\* what it was before the call, or the staging file is still there.
Unrecoverable ==
    /\ last.kind # "none"
    /\ ~last.ok
    /\ (head # Pre \/ msgFile)

\* C6: once a mutation has failed without being undone, the workflow stops:
\* no commit is inspected, no generation is requested and the engine is
\* not invoked.
C6_StopsWhenUnrecoverable ==
    [][Unrecoverable => pc' \notin {"generate", "decide", "engine"}]_vars

\* The checked-out branch has a remote-tracking ref on some remote.
TrackedOnRemote ==
    \E p \in remoteRefs : SubSeq(p, 1, 2) = << "refs", "remotes" >> /\ p[4] = branch

\* C7: in a run that is not a dry run, with warn_on_shared_branches enabled
\* and a branch tracked on a remote, no engine call precedes the operator's
\* "y".
C7_NoMutationBeforeConfirmation ==
    (/\ ~dry_run
     /\ Truthy(Get(config, "behavior", "warn_on_shared_branches", BoolV(TRUE)))
     /\ TrackedOnRemote
     /\ calls > 0) => confirmed

\* An auto-apply run over `last N`, 1 <= N <= the history's length, has
\* ended, and generation and mutation succeeded for each of the N commits.
AutoApplyLastDone ==
    /\ pc = "exit"
    /\ args.command = "last"
    /\ args.count >= 1
    /\ args.count <= Len(head0)
    /\ auto_apply
    /\ ~dry_run
    /\ Len(log) = args.count
    /\ \A i \in 1..Len(log) : log[i].ok

\* C8: after such a run each of the N most recent commits carries the
\* message generated for it, the history has its original length, and the
\* older commits keep their identities; and in every auto-apply run over
\* `last N` each target is a commit of the branch history when the engine
\* is invoked on it.
C8_AutoApplyLastN ==
    /\ AutoApplyLastDone =>
        LET L == Len(head0)
            N == args.count
        IN  /\ Len(head) = L
            /\ \A i \in 1..N : log[i].pos = i /\ head[L - i + 1].msg.text = log[i].msg
            /\ CommitAt(head, L - N) = CommitAt(head0, L - N)
    /\ (args.command = "last" /\ auto_apply) =>
            \A i \in 1..Len(log) : log[i].live

\* C8, witness: `last 2 --just-fix-it` on three commits, both rewritten, with
\* two different messages.
C8_Witness ==
    /\ AutoApplyLastDone
    /\ args.count = 2
    /\ Len(head0) = 3
    /\ log[1].msg # log[2].msg

\* C9: `last N` with N > 0 selects min(N, length) commits, most recent
\* first, without duplicates.
C9_LastSelectsMostRecent ==
    (pc # "main" /\ args.command = "last" /\ args.count > 0) =>
        LET L == Len(head0)
            n == Min(args.count, L)
        IN  /\ Len(range) = n
            /\ \A i \in 1..n : range[i] = CommitAt(head0, L - i + 1)
            /\ \A i, j \in 1..Len(range) : i # j => range[i] # range[j]

\* C9, witness: a count larger than the history, which has several commits.
C9_Witness ==
    /\ pc # "main"
    /\ args.command = "last"
    /\ args.count > Len(head0)
    /\ Len(head0) >= 2
    /\ Len(range) = Len(head0)

\* C10: `last N` and `first N` with N <= 0 select nothing, start no workflow
\* and mutate nothing.
C10_NonPositiveCountRejected ==
    (pc # "main" /\ args.command \in {"last", "first"} /\ args.count <= 0) =>
        /\ range = << >>
        /\ pc = "exit"
        /\ calls = 0

\* The commits of the selected range, as a set.
RangeSet == { range[i] : i \in 1..Len(range) }

\* The range has been selected by a command without a scope option.
Selected(command) ==
    pc # "main" /\ args.command = command /\ ~args.all_branches /\ ~args.only_main

\* C11: `first N` with N > 0 selects the min(N, length) oldest commits of the
\* history, oldest first: the count used is the N of the command line.
C11_FirstSelectsOldest ==
    (Selected("first") /\ args.count > 0) =>
        range = [i \in 1..Min(args.count, Len(head0)) |-> CommitAt(head0, i)]

\* The trunk of the repository: the branch main if there is one, else master;
\* and the commits both the checked-out branch and the trunk reach.
TrunkExists(b) == b = branch \/ otherHeads[b] # << >>
TrunkTip ==
    LET trunk == IF TrunkExists("main") THEN "main" ELSE "master"
    IN  IF trunk = branch THEN head0 ELSE otherHeads[trunk]
CommonWithTrunk == Reachable(head0) \cap Reachable(TrunkTip)

\* C12: `.` selects exactly the commits of the checked-out branch that the
\* trunk (main if it exists, else master) does not reach, each once; and all
\* commits of the branch when it has no commit in common with the trunk.
C12_CurrentBranchRange ==
    Selected(".") =>
        /\ RangeSet = Reachable(head0) \ CommonWithTrunk
        /\ Len(range) = Cardinality(RangeSet)

\* C12, witness: on feature, with a branch main at the root commit and a
\* branch master without a common ancestor: the range is all but the root.
C12_Witness ==
    /\ Selected(".")
    /\ branch = "feature"
    /\ otherHeads.main = CommitAt(head0, 1)
    /\ otherHeads.master # << >>
    /\ CommonWithTrunk # {}
    /\ Len(range) = Len(head0) - 1
    /\ Len(range) >= 1

\* C13: with --all-branches the range is the set of commits reachable from
\* all refs, with --only-main the set of commits reachable from the trunk,
\* whichever command the option is combined with.
C13_ScopeOptionsSelect ==
    /\ (pc # "main" /\ args.all_branches) =>
            RangeSet = Reachable(head0) \cup Reachable(otherHeads.main)
                          \cup Reachable(otherHeads.master)
    /\ (pc # "main" /\ args.only_main) => RangeSet = Reachable(TrunkTip)

\* C14: a selected range has no duplicates, and no merge commit when
\* behavior.skip_merge_commits is true.
C14_NoDuplicatesNoMerges ==
    pc # "main" =>
        /\ \A i, j \in 1..Len(range) : i # j => range[i] # range[j]
        /\ Truthy(Get(config, "behavior", "skip_merge_commits", BoolV(TRUE))) =>
                \A i \in 1..Len(range) : ~Object(range[i]).merge

\* C15: a decision "n" or "s" invokes no engine, leaves the repository as it
\* is and moves on to the next commit of the range; the two decisions differ
\* in nothing but their label.
C15_RejectAndSkipChangeNothing ==
    [][(pc = "decide" /\ decision' \in {"n", "s"}) =>
            /\ UNCHANGED << repoVars, otherHeads, calls, log, last >>
            /\ pc' = "loop"
            /\ idx' = idx + 1
            /\ req' = NoRequest]_vars

\* C15, witness: the first of several commits was rejected in a run that is
\* no dry run.
C15_Witness ==
    /\ decision = "n"
    /\ ~dry_run
    /\ pc = "loop"
    /\ idx = 2
    /\ Len(range) >= 2
    /\ calls = 0

\* The commit objects of the repository when the run started.
Objects0 ==
    Reachable(head0) \cup Reachable(otherHeads.main) \cup Reachable(otherHeads.master)

\* C16: in a dry run the engine is never invoked, and the branch pointer and
\* the commits are what they were when the run started.
C16_DryRunMutatesNothing ==
    dry_run =>
        /\ calls = 0
        /\ pc # "engine"
        /\ head = head0
        /\ objects = Objects0

\* C16, witness: a dry run over several commits has ended, its last decision
\* an edit.
C16_Witness ==
    /\ dry_run
    /\ pc = "exit"
    /\ Len(range) >= 2
    /\ Len(inspected) = Len(range)
    /\ decision = "e"

\* get_commit_info gives nothing for the commit the loop is at.
InspectionFails ==
    /\ pc = "loop"
    /\ idx <= Len(range)
    /\ LET i == get_commit_info(range[idx])
       IN  i.message = EmptyText \/ i.diff = {}

\* The generation request of the current commit returns no candidate.
GenerationFails == pc = "generate" /\ pc' # "decide"

C18_SequentialProcessing ==
    /\ [](/\ calls = Len(log)
          /\ \A i, j \in 1..Len(log) : i < j => log[i].pos < log[j].pos
          /\ inspected = [i \in 1..Len(inspected) |-> i]
          /\ pc = "engine" =>
                /\ decision \in {"y", "e", "auto"}
                /\ decision = "auto" <=> auto_apply
                /\ req.target = range[idx]
                /\ Len(inspected) = idx
                /\ \A i \in 1..Len(log) : log[i].pos < idx)
    /\ [][/\ inspected' # inspected => (pc = "loop" /\ req = NoRequest)
          /\ calls' # calls => (pc = "engine" /\ pc' = "loop" /\ idx' = idx + 1)]_vars

\* C18, witness: of three commits the first was accepted, the second
\* skipped and the third edited.
C18_Witness ==
    /\ Len(log) = 2
    /\ log[1].pos = 1
    /\ log[2].pos = 3
    /\ decision = "e"
    /\ pc = "loop"

\* C19: the reason given with --why is the reason of every generation
\* request.
C19_GlobalWhyReachesEveryRequest ==
    (args.why # None /\ pc = "generate") => reason = args.why

\* The value load_config returned for a key.
Loaded(section, key) == config[<<section, key>>]

\* C20: load_config returns the defaults when there is no file and no
\* environment variable; a value of the file replaces the default, an
\* all-digit value as that integer; and the three environment variables
\* replace the file's api_key, engine and auto_apply.
C20_LoadConfigPrecedence ==
    pc # "main" =>
        /\ (cfgFile = NoFile /\ environ = NoEnv) =>
                /\ Loaded("defaults", "default_commit_count") = IntV(5)
                /\ Loaded("defaults", "auto_apply") = BoolV(FALSE)
                /\ Loaded("defaults", "prompt_user_for_why") = BoolV(TRUE)
                /\ Loaded("behavior", "show_diff") = BoolV(TRUE)
                /\ Loaded("provider", "engine") = StrV(<<"g","p","t","-","4">>)
        /\ \A p \in DOMAIN cfgFile :
                /\ p \in DOMAIN config
                /\ isdigit(cfgFile[p]) => config[p] = IntV(int(cfgFile[p]))
        /\ "OPENROUTER_API_KEY" \in DOMAIN environ =>
                Loaded("provider", "api_key") = StrV(environ["OPENROUTER_API_KEY"])
        /\ "UNFCK_MODEL" \in DOMAIN environ =>
                Loaded("provider", "engine") = StrV(environ["UNFCK_MODEL"])
        /\ "UNFCK_AUTO_APPLY" \in DOMAIN environ =>
                Loaded("defaults", "auto_apply").t = "bool"

\* The engine is classifying when the workflow has handed it a request.
Classifying == pc = "engine"

\* C21: every invocation of the engine takes exactly one of the two
\* strategies and then returns: the amend when git could tell the tip and
\* the target is that tip, the rebuild otherwise; a tip that cannot be read
\* never leads to an amend.
C21_OneStrategyPerInvocation ==
    /\ [](/\ last.kind \in {"none", "amend", "rebuild"}
          /\ last.kind = "amend" => (last.tipRead /\ last.target = Pre)
          /\ last.kind = "rebuild" => ~(last.tipRead /\ last.target = Pre))
    /\ [][Classifying =>
            /\ ~Classifying'
            /\ calls' = calls + 1
            /\ last'.kind \in {"amend", "rebuild"}
            /\ last'.target = req.target
            /\ last'.pre = head]_vars

C21_Witness ==
    /\ last.kind = "rebuild"
    /\ last.target = Pre
    /\ ~last.tipRead
    /\ last.ok

\* C22: every commit the loop inspects further or hands to the engine is a
\* commit of the history of the checked-out branch as it is at that moment.
C22_TargetsAreCurrentHistory ==
    /\ pc \in {"generate", "decide", "engine"} => IsInHistory(range[idx], head)
    /\ pc = "engine" => IsInHistory(req.target, head)

\* C23: an ancestor rewrite runs clean_filter_branch_backup before
\* filter-branch; when the cleanup has returned no backup ref is left,
\* whichever branch it belongs to; and a second cleanup changes nothing.
C23_CleanupEmptiesBackups ==
    last.kind = "rebuild" =>
        /\ "filter-branch" \in last.cmds => "for-each-ref" \in last.cmds
        /\ "for-each-ref" \in last.cmds =>
                /\ last.cleaned = {}
                /\ clean_filter_branch_backup(last.cleaned) = last.cleaned

\* C24: when the engine has returned from an ancestor rewrite, whatever the
\* outcome, no backup ref is left in the repository.
C24_NoBackupAfterRebuild ==
    last.kind = "rebuild" => backups = {}

\* C26: when the engine has reported success, the target is a commit of the
\* branch history and the commit at its position carries the new message.
C26_SuccessMeansRewritten ==
    last.ok =>
        /\ last.live
        /\ TargetPos <= Len(head)
        /\ head[TargetPos].msg.text = last.msg

\* The run is inside the for loop of process_commits.
InLoop == pc \in {"loop", "generate", "decide", "engine"}

SetPairs == { << sets[i].section, sets[i].key >> : i \in { j \in 1..Len(sets) : sets[j].ok } }

\* The pair p of the file holds what it held before the first `config set`.
KeptFromFile(p) ==
    p \in DOMAIN cfgFile0 /\ ConvertValue(cfgFile[p]) = ConvertValue(cfgFile0[p])

\* The pair p of the file is a built-in default written out.
DefaultWrittenOut(p) ==
    /\ p \in DOMAIN Defaults
    /\ p \notin DOMAIN cfgFile0
    /\ ConvertValue(cfgFile[p]) = Defaults[p]

\* C27: after any sequence of `config set` invocations every pair of the
\* file was set by one of them, or holds the value the file had before, or
\* is a built-in default written out: no value that came from the
\* environment only is in the file; and a `config set` that fails leaves
\* the file as it was.
C27_ConfigSetFrame ==
    /\ [](args.command = "config" =>
            /\ \A p \in DOMAIN cfgFile0 : p \in DOMAIN cfgFile
            /\ \A p \in DOMAIN cfgFile :
                    p \in SetPairs \/ KeptFromFile(p) \/ DefaultWrittenOut(p))
    /\ [][(sets' # sets /\ ~sets'[Len(sets')].ok) => cfgFile' = cfgFile]_vars
====
